---------------------------- MODULE Spec2Model ----------------------------
(***************************************************************************)
(* A model of src/main.py: the Grays vehicle scraper service.              *)
(*                                                                         *)
(*   - extract_all_vehicle_links : paginated link collection (blocking)    *)
(*   - safe_goto / process_links_with_playwright : detail fetching         *)
(*   - trigger_scrape            : POST /api/scrape                        *)
(*   - update_listings           : POST /api/update-listings               *)
(*   - extract_vehicle_details   : detail parsing                          *)
(*                                                                         *)
(* Text is modelled as sequences of tokens: an href is a sequence of path  *)
(* tokens, a link text a sequence of words, a countdown a sequence of      *)
(* characters.  The remote site and the browser are the environment: every *)
(* fetch draws its outcome from a small set.                               *)
(***************************************************************************)
EXTENDS Integers, Sequences, FiniteSets, TLC

\* ------------------------------------------------------------------ bounds
\* Number of POST /api/scrape invocations that may exist at a time.
NumRequests == 2
\* Longest url list sent to POST /api/update-listings.
MaxUrls == 3

\* ------------------------------------------------------- program constants
\* trigger_scrape: extract_all_vehicle_links(max_pages=5)
ScrapeMaxPages == 5
\* trigger_scrape: process_links_with_playwright(..., max_vehicles=20)
ScrapeMaxVehicles == 20
\* safe_goto(..., retries=2)
Retries == 2
\* safe_goto: page.wait_for_timeout(2000)
PauseMs == 2000

Requests == 1..NumRequests

Min(a, b) == IF a <= b THEN a ELSE b

\* --------------------------------------------------------------- the site
Origin == "https://www.grays.com"

\* The lots the remote site may list, by identifier.
LotIds == {"1", "2"}
\* \d+ on one path token.
DigitRuns == {"1", "2", "3", "4", "5", "6", "7", "8", "9", "10", "42"}

\* An anchor element: its attributes (a record of the names present and
\* their values) and its visible text.
Anchor(attrs, text) == [attrs |-> attrs, text |-> text]

RootedHref(id) == <<"/", "lot", "/", id>>
AbsoluteHref(id) == <<Origin, "/", "lot", "/", id>>

CarText == <<"2019", "Toyota", "Corolla">>
QuadText == <<"2018", "Yamaha", "Quad", "Bike">>
MotorBikeText == <<"2020", "Honda", "Motor", "Bike">>
NoYearText == <<"Toyota", "2019">>

\* <a href=h>text</a>
PlainAnchor(h, text) == Anchor([href |-> h], text)
\* <a href=h href__="1">text</a>
MarkedAnchor(h, text) == Anchor([href |-> h, href__ |-> <<"1">>], text)
\* <a href__="1">text</a>: no href attribute at all.
HreflessAnchor(text) == Anchor([href__ |-> <<"1">>], text)

\* The index pages the site may answer with (each a sequence of anchors).
LotPages ==
    {<<MarkedAnchor(RootedHref(id), CarText)>> : id \in LotIds}
    \cup {<<MarkedAnchor(AbsoluteHref(id), CarText),
            MarkedAnchor(RootedHref(id), CarText),
            MarkedAnchor(RootedHref(id2), CarText),
            MarkedAnchor(RootedHref(id2), QuadText)>> : id \in LotIds, id2 \in LotIds}

OddPages ==
    { <<>>,
      <<PlainAnchor(RootedHref("1"), CarText)>>,
      <<MarkedAnchor(RootedHref("1"), MotorBikeText),
        MarkedAnchor(RootedHref("2"), NoYearText),
        MarkedAnchor(<<"/", "about">>, CarText)>>,
      <<HreflessAnchor(CarText)>> }

IndexPages == LotPages \cup OddPages

\* The outcome of one requests.get + raise_for_status: a document, or an
\* exception (request error or non-success HTTP status).
FetchFailed == [ok |-> FALSE]
Fetched(doc) == [ok |-> TRUE, doc |-> doc]
PageOutcomes == {Fetched(doc) : doc \in IndexPages} \cup {FetchFailed}

\* ------------------------------------------------- extract_all_vehicle_links
\* re.search(r"/lot/\d+", href)
MatchesLotPattern(href) ==
    \E k \in 1..(Len(href) - 3) :
        /\ href[k] = "/"
        /\ href[k + 1] = "lot"
        /\ href[k + 2] = "/"
        /\ href[k + 3] \in DigitRuns

YearTokens == {"2017", "2018", "2019", "2020"}
\* re.match(r"^\d{4}\b", text)
StartsWithYear(text) == Len(text) >= 1 /\ text[1] \in YearTokens

\* str.lower() on one word.
Lower(w) ==
    CASE w = "Quad" -> "quad"
      [] w = "Motor" -> "motor"
      [] w = "Bike" -> "bike"
      [] w = "Motorbike" -> "motorbike"
      [] OTHER -> w

\* any(bike in text.lower() for bike in ["motorbike", "motor bike", "quad"])
HasBikeKeyword(text) ==
    \/ \E k \in 1..Len(text) : Lower(text[k]) \in {"motorbike", "quad"}
    \/ \E k \in 1..(Len(text) - 1) :
          Lower(text[k]) = "motor" /\ Lower(text[k + 1]) = "bike"

\* "https://www.grays.com" + href if href.startswith("/") else href
FullUrl(href) == IF Len(href) >= 1 /\ href[1] = "/" THEN <<Origin>> \o href ELSE href

\* soup.find_all("a", href__=True): the anchors that carry an attribute
\* named href__ (the keyword argument is an attribute filter).
FindAllAnchors(doc) == SelectSeq(doc, LAMBDA a : "href__" \in DOMAIN a.attrs)

\* a["href"] raises KeyError when the anchor has no href attribute.
RaisesKeyError(doc) ==
    \E k \in 1..Len(FindAllAnchors(doc)) :
        "href" \notin DOMAIN FindAllAnchors(doc)[k].attrs

\* The test of lines 84-86 on one anchor found by find_all.
Accepted(a) ==
    /\ MatchesLotPattern(a.attrs.href)
    /\ StartsWithYear(a.text)
    /\ ~HasBikeKeyword(a.text)

\* The for loop of lines 81-90 over anchors as[k..]: page_links after
\* the loop, given seen and page_links before it.
RECURSIVE ScanAnchors(_, _, _, _)
ScanAnchors(as, k, seenSoFar, pageLinks) ==
    IF k > Len(as) THEN [seen |-> seenSoFar, page_links |-> pageLinks]
    ELSE LET a == as[k]
             full_url == FullUrl(a.attrs.href)
         IN IF Accepted(a) /\ full_url \notin seenSoFar
            THEN ScanAnchors(as, k + 1, seenSoFar \cup {full_url},
                             Append(pageLinks, full_url))
            ELSE ScanAnchors(as, k + 1, seenSoFar, pageLinks)

PageLinks(doc, seenSoFar) == ScanAnchors(FindAllAnchors(doc), 1, seenSoFar, <<>>)


\* One iteration of the while loop of lines 67-98 on the frame
\* [page, seen, all_links]: the frame after it and how the iteration ended
\* ("next": page += 1, "break", "raise": KeyError out of the function).
LoopIteration(frame, out) ==
    IF ~out.ok THEN [frame EXCEPT !.ctl = "break"]
    ELSE IF RaisesKeyError(out.doc) THEN [frame EXCEPT !.ctl = "raise"]
    ELSE LET r == PageLinks(out.doc, frame.seen)
         IN IF r.page_links = <<>> THEN [frame EXCEPT !.ctl = "break"]
            ELSE [ctl |-> "next",
                  page |-> frame.page + 1,
                  seen |-> r.seen,
                  all_links |-> frame.all_links \o r.page_links]

\* --------------------------------------------------- extract_vehicle_details
\* A detail page: the words of its h1.lotPageTitle (has_title FALSE: no
\* such element), its countdown text as characters (<<>>: none), its price
\* (0: absent) and its bid count.
DetailDoc(has_title, title, countdown, price, bids) ==
    [has_title |-> has_title, title |-> title, countdown |-> countdown,
     price |-> price, bids |-> bids]

RunningCountdown == <<"2", "h", " ", "1", "5", "m">>
EndedCountdown == <<"E", "n", "d", "e", "d">>

ActiveListing == DetailDoc(TRUE, <<"2019", "Toyota", "Corolla", "Ascent">>,
                           RunningCountdown, 4000, 1)
SoldListing == DetailDoc(TRUE, <<"2015", "Ford">>, <<>>, 5000, 3)

\* The detail pages a crawl may be served.
CrawlDetailDocs == {ActiveListing, SoldListing}

Titles == { <<"2019", "Toyota", "Corolla", "Ascent">>, <<"2015", "Ford">>,
            <<"Toyota", "2019", "Corolla">>, <<"2020">>, <<>> }

\* Every detail page of the model.
DetailDocs ==
    {DetailDoc(TRUE, t, c, pr, b) :
        t \in Titles, c \in {RunningCountdown, EndedCountdown, <<>>},
        pr \in {0, 5000}, b \in {0, 3}}
    \cup {DetailDoc(FALSE, <<>>, c, pr, b) :
        c \in {RunningCountdown, <<>>}, pr \in {0, 5000}, b \in {0, 3}}

\* int(year) for the 4-digit tokens of the model.
YearValue(w) ==
    CASE w = "2015" -> 2015
      [] w = "2017" -> 2017
      [] w = "2018" -> 2018
      [] w = "2019" -> 2019
      [] w = "2020" -> 2020

\* re.match(r"^\d{4}$", w)
IsFourDigits(w) == w \in {"2015", "2017", "2018", "2019", "2020"}

\* title.split() of the heading text, "N/A" when there is no heading.
TitleParts(doc) == IF doc.has_title THEN doc.title ELSE <<"N/A">>

\* Lines 153-181: the record's url, title fields and status.  The label
\* fields of lines 184-203 (FIELD_MAP, condition, features, location) are
\* read by no property of this module and are left out of the record.
\* year 0 stands for None.
extract_vehicle_details(doc, url) ==
    LET title_parts == TitleParts(doc)
        n == Len(title_parts)
    IN [url |-> url,
        title |-> title_parts,
        year |-> IF n >= 1 /\ IsFourDigits(title_parts[1])
                 THEN YearValue(title_parts[1]) ELSE 0,
        make |-> IF n > 1 THEN title_parts[2] ELSE "Unknown",
        model |-> IF n > 2 THEN title_parts[3] ELSE "Unknown",
        variant |-> IF n > 3 THEN SubSeq(title_parts, 4, n) ELSE <<>>,
        status |-> "active"]


\* ------------------------------------------------------------------- state
VARIABLES
    vehicles_db,    \* global: the result store (a sequence of records)
    vehicle_links,  \* global: the links of the latest collection
    pc,             \* per invocation of trigger_scrape: where it stands
    page,           \* extract_all_vehicle_links: page
    seen,           \* extract_all_vehicle_links: seen
    all_links,      \* extract_all_vehicle_links: all_links
    fetch_log,      \* history: the outcomes of the index fetches of the
                    \* collection in progress, in fetch order
    links,          \* process_links_with_playwright: its argument links
    i,              \* process_links_with_playwright: 1-based loop position
                    \* in links_to_process (0: not in the loop)
    attempt,        \* safe_goto: navigation attempts made for the current url
    waited,         \* safe_goto: milliseconds paused for the current url
    results,        \* process_links_with_playwright: results
    skipped,        \* process_links_with_playwright: skipped
    nav,            \* history: per url that safe_goto has returned for, the
                    \* attempts made, the pause total and the value returned
    resp,           \* per invocation: the HTTP response, once there is one
    db_before,      \* history: vehicles_db when the invocation started
    upd_request,    \* update_listings: request.urls
    upd_unreachable,\* the urls whose fetch would fail at the time of the update
    upd_response,   \* update_listings: the list returned
    parse_input,    \* extract_vehicle_details: (soup, url) last parsed
    parse_output    \* extract_vehicle_details: the record returned

scrape_vars == <<vehicles_db, vehicle_links, pc, page, seen, all_links,
                 fetch_log, links, i, attempt, waited, results, skipped, nav,
                 resp, db_before>>
update_vars == <<upd_request, upd_unreachable, upd_response>>
parse_vars == <<parse_input, parse_output>>
vars == <<scrape_vars, update_vars, parse_vars>>

NoResponse == [kind |-> "none"]
NoInput == [given |-> FALSE]

\* The state of the process after import: empty globals, no request in
\* flight.
Init ==
    /\ vehicles_db = <<>>
    /\ vehicle_links = <<>>
    /\ pc = [p \in Requests |-> "idle"]
    /\ page = 0
    /\ seen = {}
    /\ all_links = <<>>
    /\ fetch_log = <<>>
    /\ links = [p \in Requests |-> <<>>]
    /\ i = [p \in Requests |-> 0]
    /\ attempt = [p \in Requests |-> 0]
    /\ waited = [p \in Requests |-> 0]
    /\ results = [p \in Requests |-> <<>>]
    /\ skipped = [p \in Requests |-> <<>>]
    /\ nav = [p \in Requests |-> <<>>]
    /\ resp = [p \in Requests |-> NoResponse]
    /\ db_before = [p \in Requests |-> <<>>]
    /\ upd_request = <<>>
    /\ upd_unreachable = {}
    /\ upd_response = <<>>
    /\ parse_input = NoInput
    /\ parse_output = NoInput

\* ------------------------------------------------------------ trigger_scrape
\* except Exception as e: raise HTTPException(status_code=500, ...)
ErrorResponse(e) == [kind |-> "error", status_code |-> 500, detail |-> e]

NoLinksResponse == [kind |-> "nolinks", found |-> 0, processed |-> 0]

\* Lines 274-279, evaluated after vehicles_db = vehicles_data: both counts
\* read the globals.
SuccessResponse(links_global, db_global) ==
    [kind |-> "success", found |-> Len(links_global), processed |-> Len(db_global)]

\* The collection frame once extract_all_vehicle_links has returned or
\* raised.
FrameGone ==
    /\ page' = 0
    /\ seen' = {}
    /\ all_links' = <<>>
    /\ fetch_log' = <<>>

FrameKept == UNCHANGED <<page, seen, all_links, fetch_log>>

DetailKept == UNCHANGED <<links, i, attempt, waited, results, skipped, nav>>

\* The other handlers' state.
OthersKept == UNCHANGED <<upd_request, upd_unreachable, upd_response,
                          parse_input, parse_output>>

\* Link collection is blocking (requests.get on the event loop): while an
\* invocation is between its first index fetch and its first await, no
\* other invocation runs.
NotBlocked(p) == \A q \in Requests \ {p} : pc[q] \notin {"collect", "collected"}

\* The except clause as a clear-then-fill handler would have it: the store
\* is reset before the error is reported.
FailsClearingStore(p, e) ==
    /\ pc' = [pc EXCEPT ![p] = "failed"]
    /\ resp' = [resp EXCEPT ![p] = ErrorResponse(e)]
    /\ vehicles_db' = <<>>
    /\ UNCHANGED <<vehicle_links, db_before>>

\* The except clause of lines 281-283: the handler answers 500.  Nothing
\* else is assigned.
Fails(p, e) ==
    /\ pc' = [pc EXCEPT ![p] = "failed"]
    /\ resp' = [resp EXCEPT ![p] = ErrorResponse(e)]
    /\ UNCHANGED <<vehicles_db, vehicle_links, db_before>>

\* A request arrives: trigger_scrape runs to the first index fetch.
StartScrape(p) ==
    /\ pc[p] = "idle"
    /\ NotBlocked(p)
    /\ OthersKept
    /\ pc' = [pc EXCEPT ![p] = "collect"]
    /\ page' = 1
    /\ seen' = {}
    /\ all_links' = <<>>
    /\ fetch_log' = <<>>
    /\ db_before' = [db_before EXCEPT ![p] = vehicles_db]
    /\ UNCHANGED <<vehicles_db, vehicle_links, resp>>
    /\ DetailKept

\* One iteration of the while loop: the fetch of index page `page` with
\* outcome out, then lines 78-98.
FetchPage(p, outcomes, max_pages) ==
    /\ pc[p] = "collect"
    /\ NotBlocked(p)
    /\ OthersKept
    /\ page <= max_pages
    /\ \E out \in outcomes :
        LET f == LoopIteration([ctl |-> "next", page |-> page, seen |-> seen,
                                all_links |-> all_links], out)
        IN IF f.ctl = "raise"
           THEN /\ Fails(p, "KeyError: href")
                /\ FrameGone
           ELSE /\ page' = f.page
                /\ seen' = f.seen
                /\ all_links' = f.all_links
                /\ fetch_log' = Append(fetch_log, out)
                /\ pc' = [pc EXCEPT ![p] =
                            IF f.ctl = "break" \/ f.page > max_pages
                            THEN "collected" ELSE "collect"]
                /\ UNCHANGED <<vehicles_db, vehicle_links, resp, db_before>>
    /\ DetailKept

\* links[:max_vehicles]
Take(s, n) == SubSeq(s, 1, Min(n, Len(s)))

links_to_process(p) == Take(links[p], ScrapeMaxVehicles)

\* extract_all_vehicle_links returns; lines 262-269 up to the first await
\* of process_links_with_playwright.
ReturnLinks(p) ==
    /\ pc[p] = "collected"
    /\ NotBlocked(p)
    /\ OthersKept
    /\ vehicle_links' = all_links
    /\ FrameGone
    /\ IF all_links = <<>>
       THEN /\ pc' = [pc EXCEPT ![p] = "nolinks"]
            /\ resp' = [resp EXCEPT ![p] = NoLinksResponse]
            /\ UNCHANGED links
       ELSE /\ pc' = [pc EXCEPT ![p] = "launch"]
            /\ links' = [links EXCEPT ![p] = all_links]
            /\ UNCHANGED resp
    /\ UNCHANGED <<vehicles_db, db_before, i, attempt, waited, results, skipped, nav>>


\* ------------------------------------------- process_links_with_playwright
CollectKept == UNCHANGED <<vehicles_db, vehicle_links, db_before>>

\* The body of the for loop is done for links_to_process[i]: the next url,
\* or the end of the loop.
NextLink(p) ==
    /\ i' = [i EXCEPT ![p] = i[p] + 1]
    /\ attempt' = [attempt EXCEPT ![p] = 0]
    /\ waited' = [waited EXCEPT ![p] = 0]
    /\ pc' = [pc EXCEPT ![p] =
                IF i[p] + 1 <= Len(links_to_process(p)) THEN "goto" ELSE "close"]

\* async_playwright(), chromium.launch and new_page succeed; the loop
\* starts and safe_goto issues its first page.goto.
Launch(p) ==
    /\ pc[p] = "launch"
    /\ NotBlocked(p)
    /\ OthersKept
    /\ results' = [results EXCEPT ![p] = <<>>]
    /\ skipped' = [skipped EXCEPT ![p] = <<>>]
    /\ nav' = [nav EXCEPT ![p] = <<>>]
    /\ NextLink(p)
    /\ UNCHANGED <<resp, links>>
    /\ CollectKept /\ FrameKept

\* Starting the browser raises (lines 226-228).
LaunchRaises(p) ==
    /\ pc[p] = "launch"
    /\ NotBlocked(p)
    /\ OthersKept
    /\ Fails(p, "browser launch")
    /\ DetailKept /\ FrameKept

\* What safe_goto has on record when it returns for the current url.
NavEntry(p, attempts, ok) ==
    [url |-> links_to_process(p)[i[p]], attempts |-> attempts,
     waited |-> waited[p], ok |-> ok]

\* safe_goto: await page.goto succeeds; return True, and the caller awaits
\* page.content().
GotoOk(p) ==
    /\ pc[p] = "goto"
    /\ NotBlocked(p)
    /\ OthersKept
    /\ attempt' = [attempt EXCEPT ![p] = attempt[p] + 1]
    /\ nav' = [nav EXCEPT ![p] = Append(nav[p], NavEntry(p, attempt[p] + 1, TRUE))]
    /\ pc' = [pc EXCEPT ![p] = "content"]
    /\ UNCHANGED <<resp, links, i, waited, results, skipped>>
    /\ CollectKept /\ FrameKept

\* safe_goto: await page.goto raises; the except clause logs and awaits
\* page.wait_for_timeout(2000).
GotoRaises(p) ==
    /\ pc[p] = "goto"
    /\ NotBlocked(p)
    /\ OthersKept
    /\ attempt' = [attempt EXCEPT ![p] = attempt[p] + 1]
    /\ pc' = [pc EXCEPT ![p] = "wait"]
    /\ UNCHANGED <<resp, links, i, waited, results, skipped, nav>>
    /\ CollectKept /\ FrameKept

\* safe_goto with the loop as range(retries + 1): one attempt too many.
WaitDoneOffByOne(p) ==
    /\ pc[p] = "wait"
    /\ NotBlocked(p)
    /\ OthersKept
    /\ IF attempt[p] <= Retries
       THEN /\ waited' = [waited EXCEPT ![p] = waited[p] + PauseMs]
            /\ pc' = [pc EXCEPT ![p] = "goto"]
            /\ UNCHANGED <<i, attempt, skipped, nav>>
       ELSE /\ skipped' = [skipped EXCEPT ![p] =
                              Append(skipped[p], links_to_process(p)[i[p]])]
            /\ nav' = [nav EXCEPT ![p] =
                          Append(nav[p], [NavEntry(p, attempt[p], FALSE)
                                             EXCEPT !.waited = waited[p] + PauseMs])]
            /\ NextLink(p)
    /\ UNCHANGED <<resp, links, results>>
    /\ CollectKept /\ FrameKept

\* safe_goto: the pause is over.  Another attempt while attempts remain
\* (for attempt in range(retries)); else return False and the caller
\* appends the url to skipped.
WaitDone(p) ==
    /\ pc[p] = "wait"
    /\ NotBlocked(p)
    /\ OthersKept
    /\ IF attempt[p] < Retries
       THEN /\ waited' = [waited EXCEPT ![p] = waited[p] + PauseMs]
            /\ pc' = [pc EXCEPT ![p] = "goto"]
            /\ UNCHANGED <<i, attempt, skipped, nav>>
       ELSE /\ skipped' = [skipped EXCEPT ![p] =
                              Append(skipped[p], links_to_process(p)[i[p]])]
            /\ nav' = [nav EXCEPT ![p] =
                          Append(nav[p], [NavEntry(p, attempt[p], FALSE)
                                             EXCEPT !.waited = waited[p] + PauseMs])]
            /\ NextLink(p)
    /\ UNCHANGED <<resp, links, results>>
    /\ CollectKept /\ FrameKept

\* safe_goto: page.wait_for_timeout raises inside the except clause (the
\* page or browser is gone); the exception leaves safe_goto.
WaitRaises(p) ==
    /\ pc[p] = "wait"
    /\ NotBlocked(p)
    /\ OthersKept
    /\ Fails(p, "page.wait_for_timeout")
    /\ DetailKept /\ FrameKept

\* await page.content() returns doc; it is parsed and the record appended.
PageContent(p, docs) ==
    /\ pc[p] = "content"
    /\ NotBlocked(p)
    /\ OthersKept
    /\ \E doc \in docs :
          results' = [results EXCEPT ![p] =
              Append(results[p],
                     extract_vehicle_details(doc, links_to_process(p)[i[p]]))]
    /\ NextLink(p)
    /\ UNCHANGED <<resp, links, skipped, nav>>
    /\ CollectKept /\ FrameKept

\* await page.content() raises (line 234 is under no try).
ContentRaises(p) ==
    /\ pc[p] = "content"
    /\ NotBlocked(p)
    /\ OthersKept
    /\ Fails(p, "page.content")
    /\ DetailKept /\ FrameKept

\* await browser.close() returns; process_links_with_playwright returns
\* results; lines 272-279.
CloseBrowser(p) ==
    /\ pc[p] = "close"
    /\ NotBlocked(p)
    /\ OthersKept
    /\ vehicles_db' = results[p]
    /\ resp' = [resp EXCEPT ![p] = SuccessResponse(vehicle_links, vehicles_db')]
    /\ pc' = [pc EXCEPT ![p] = "done"]
    /\ UNCHANGED <<vehicle_links, db_before>>
    /\ DetailKept /\ FrameKept

\* await browser.close() raises.
CloseRaises(p) ==
    /\ pc[p] = "close"
    /\ NotBlocked(p)
    /\ OthersKept
    /\ Fails(p, "browser.close")
    /\ DetailKept /\ FrameKept

\* The response is sent; the invocation and its locals are gone.
Respond(p) ==
    /\ pc[p] \in {"done", "failed", "nolinks"}
    /\ NotBlocked(p)
    /\ OthersKept
    /\ pc' = [pc EXCEPT ![p] = "idle"]
    /\ resp' = [resp EXCEPT ![p] = NoResponse]
    /\ links' = [links EXCEPT ![p] = <<>>]
    /\ i' = [i EXCEPT ![p] = 0]
    /\ attempt' = [attempt EXCEPT ![p] = 0]
    /\ waited' = [waited EXCEPT ![p] = 0]
    /\ results' = [results EXCEPT ![p] = <<>>]
    /\ skipped' = [skipped EXCEPT ![p] = <<>>]
    /\ nav' = [nav EXCEPT ![p] = <<>>]
    /\ db_before' = [db_before EXCEPT ![p] = <<>>]
    /\ UNCHANGED <<vehicles_db, vehicle_links>>
    /\ FrameKept

\* A request arrives while no other invocation exists: crawls run one
\* after the other.
StartAlone(p) ==
    /\ \A q \in Requests \ {p} : pc[q] = "idle"
    /\ StartScrape(p)

\* The index pages and detail pages served to overlapping invocations.
OverlapOutcomes ==
    { FetchFailed, Fetched(<<>>),
      Fetched(<<MarkedAnchor(RootedHref("1"), CarText)>>),
      Fetched(<<MarkedAnchor(RootedHref("1"), CarText),
                MarkedAnchor(RootedHref("2"), CarText)>>) }

OverlapDetailDocs == {ActiveListing}

\* Sequential crawls.
Next ==
    \E p \in Requests :
        \/ StartAlone(p)
        \/ FetchPage(p, PageOutcomes, ScrapeMaxPages)
        \/ ReturnLinks(p)
        \/ Launch(p)
        \/ LaunchRaises(p)
        \/ GotoOk(p)
        \/ GotoRaises(p)
        \/ WaitDone(p)
        \/ WaitRaises(p)
        \/ PageContent(p, CrawlDetailDocs)
        \/ ContentRaises(p)
        \/ CloseBrowser(p)
        \/ CloseRaises(p)
        \/ Respond(p)

Spec == Init /\ [][Next]_vars

\* Invocations may overlap: while one awaits the browser another may run.
NextOverlap ==
    \E p \in Requests :
        \/ StartScrape(p)
        \/ FetchPage(p, OverlapOutcomes, ScrapeMaxPages)
        \/ ReturnLinks(p)
        \/ Launch(p)
        \/ LaunchRaises(p)
        \/ GotoOk(p)
        \/ GotoRaises(p)
        \/ WaitDone(p)
        \/ WaitRaises(p)
        \/ PageContent(p, OverlapDetailDocs)
        \/ ContentRaises(p)
        \/ CloseBrowser(p)
        \/ CloseRaises(p)
        \/ Respond(p)

SpecOverlap == Init /\ [][NextOverlap]_vars


\* ---------------------------------------------------------- update_listings
\* The urls a client may send.
ClientUrls ==
    {FullUrl(RootedHref(id)) : id \in LotIds} \cup {<<"https://example.org", "/", "x">>}

\* Sequences over S of length at most n.
SeqUpTo(S, n) == UNION {[1..k -> S] : k \in 0..n}

\* Lines 323-329: the projection appended for one url.  "None" stands for
\* the Python None.
Placeholder(url) ==
    [url |-> url, price |-> "None", bids |-> 0,
     time_remaining |-> "Unknown", status |-> "active"]

\* POST /api/update-listings with body {urls}, while the urls in
\* unreachable cannot be fetched.  The handler issues no fetch.
UpdateListings ==
    /\ \E urls \in SeqUpTo(ClientUrls, MaxUrls), unreachable \in SUBSET ClientUrls :
        /\ upd_request' = urls
        /\ upd_unreachable' = unreachable
        /\ upd_response' = [k \in 1..Len(urls) |-> Placeholder(urls[k])]
    /\ UNCHANGED <<scrape_vars, parse_vars>>

NextUpdate == UpdateListings

SpecUpdate == Init /\ [][NextUpdate]_vars

\* ------------------------------------------------------------ detail parsing
\* extract_vehicle_details(soup, url) on any detail page of the model.
ParseDetail ==
    /\ \E doc \in DetailDocs, url \in ClientUrls :
        /\ parse_input' = [given |-> TRUE, doc |-> doc, url |-> url]
        /\ parse_output' = [given |-> TRUE, record |-> extract_vehicle_details(doc, url)]
    /\ UNCHANGED <<scrape_vars, update_vars>>

NextParse == ParseDetail

SpecParse == Init /\ [][NextParse]_vars


\* ================================================================ properties
Urls(records) == {records[k].url : k \in 1..Len(records)}
Range(sq) == {sq[k] : k \in 1..Len(sq)}

\* ------------------------------------------------------------------------
\* C1.  After a full crawl that ran alone has answered, the result store
\* holds exactly the records that crawl produced: every url stored before
\* it and not produced by it is gone, also when it collected zero links.
C1_StoreHoldsSecondCrawl ==
    \A p \in Requests :
        pc[p] \in {"done", "nolinks"} =>
            /\ vehicles_db = results[p]
            /\ \A u \in Urls(db_before[p]) \ Urls(results[p]) : u \notin Urls(vehicles_db)

\* ------------------------------------------------------------------------
\* C2.  Whenever a full crawl ends in failure (trigger_scrape answers 500)
\* the result store equals what it was before that crawl started.
C2_FailureLeavesStore ==
    \A p \in Requests : pc[p] = "failed" => vehicles_db = db_before[p]

\* A crawl failed at page.content() with a record already in its buffer,
\* while the store held the records of an earlier crawl.
C2_Witness ==
    \E p \in Requests :
        /\ pc[p] = "failed"
        /\ resp[p] = ErrorResponse("page.content")
        /\ results[p] # <<>>
        /\ db_before[p] # <<>>
        /\ db_before[p] # results[p]

\* ------------------------------------------------------------------------
\* C3.  update-listings returns one projection per input url, in input
\* order, and the projection of every url whose fetch fails carries the
\* error status instead of a normal one.
C3_UpdateProjections ==
    /\ Len(upd_response) = Len(upd_request)
    /\ \A k \in 1..Len(upd_request) :
          /\ upd_response[k].url = upd_request[k]
          /\ upd_request[k] \in upd_unreachable => upd_response[k].status = "error"

\* ------------------------------------------------------------------------
\* The ListingStatus rule on a detail page.
Digits == {"0", "1", "2", "3", "4", "5", "6", "7", "8", "9"}
HasDigit(text) == \E k \in 1..Len(text) : text[k] \in Digits
ListingStatus(doc) ==
    IF HasDigit(doc.countdown) THEN "active"
    ELSE IF doc.price # 0 /\ doc.bids > 0 THEN "sold"
    ELSE "referred"

\* C4.  The status of every record produced by detail parsing follows the
\* ListingStatus rule: active when the countdown text contains a digit;
\* else sold when a price is present and the bid count is above 0; else
\* referred.
C4_StatusRule ==
    parse_output.given =>
        parse_output.record.status = ListingStatus(parse_input.doc)

\* ------------------------------------------------------------------------
\* The links of an index page that qualify, whatever attribute filter the
\* scan applies.
Qualifies(a) ==
    /\ "href" \in DOMAIN a.attrs
    /\ MatchesLotPattern(a.attrs.href)
    /\ StartsWithYear(a.text)
    /\ ~HasBikeKeyword(a.text)

QualifyingUrls(doc) ==
    {FullUrl(doc[k].attrs.href) : k \in {j \in 1..Len(doc) : Qualifies(doc[j])}}

IsAbsolute(url) == Len(url) >= 1 /\ url[1] \in {Origin, "https://example.org"}

\* C5.  The list returned by link collection contains each qualifying link
\* of the pages fetched exactly once and nothing else, without duplicates,
\* every url absolute.  A link qualifies when its target matches the lot
\* pattern and its text begins with a 4-digit year and has no
\* motorcycle/quad keyword.
C5_QualifyingLinksOnce ==
    \A p \in Requests :
        pc[p] = "collected" =>
            /\ Range(all_links) =
                 UNION {QualifyingUrls(fetch_log[k].doc) :
                           k \in {j \in 1..Len(fetch_log) : fetch_log[j].ok}}
            /\ Cardinality(Range(all_links)) = Len(all_links)
            /\ \A u \in Range(all_links) : IsAbsolute(u)

\* ------------------------------------------------------------------------
\* C6.  When the fetch of index page k fails and k is below the page
\* bound, the page is skipped and page k+1 is still fetched.
C6_FailedPageSkipped ==
    \A p \in Requests :
        pc[p] = "collected" =>
            \A k \in 1..Len(fetch_log) :
                (~fetch_log[k].ok /\ k < ScrapeMaxPages) => Len(fetch_log) >= k + 1

\* ------------------------------------------------------------------------
\* C7.  During detail fetching a fetch error or a parse error on one link
\* never aborts the crawl: the crawl does not fail while it is at one of
\* the links to process.
C7_LinkErrorNotFatal ==
    \A p \in Requests :
        pc[p] = "failed" => ~(i[p] \in 1..Len(links_to_process(p)))

\* ------------------------------------------------------------------------
\* C8.  Link collection fetches pages 1, 2, ... in order, at most max_pages
\* of them, and stops before the page bound only when the page just
\* fetched is empty (has no qualifying lot link).
C8_StopsOnlyOnEmptyPage ==
    \A p \in Requests :
        /\ pc[p] \in {"collect", "collected"} =>
              /\ Len(fetch_log) <= ScrapeMaxPages
              /\ pc[p] = "collect" => page = Len(fetch_log) + 1
        /\ (pc[p] = "collected" /\ Len(fetch_log) < ScrapeMaxPages) =>
              LET last == fetch_log[Len(fetch_log)]
              IN last.ok /\ QualifyingUrls(last.doc) = {}

\* ------------------------------------------------------------------------
\* The failed attempts of one safe_goto call on record.
FailedAttempts(e) == IF e.ok THEN e.attempts - 1 ELSE e.attempts

\* C9.  For every detail url safe_goto makes at most Retries navigation
\* attempts, none after a successful one, pauses PauseMs after every
\* failed attempt, and returns False only after Retries failed attempts; a
\* url it returned False for is in skipped and has no record in results.
C9_SafeGoto ==
    \A p \in Requests :
        /\ attempt[p] <= Retries
        /\ pc[p] = "goto" => attempt[p] < Retries /\ waited[p] = PauseMs * attempt[p]
        /\ pc[p] \in {"wait", "content"} =>
              attempt[p] >= 1 /\ waited[p] = PauseMs * (attempt[p] - 1)
        /\ Len(nav[p]) <= Len(links_to_process(p))
        /\ \A k \in 1..Len(nav[p]) :
              LET e == nav[p][k]
              IN /\ e.url = links_to_process(p)[k]
                 /\ e.attempts \in 1..Retries
                 /\ e.waited = PauseMs * FailedAttempts(e)
                 /\ ~e.ok => /\ e.attempts = Retries
                             /\ e.url \in Range(skipped[p])
                             /\ e.url \notin Urls(results[p])
                 /\ e.ok => e.url \notin Range(skipped[p])
        /\ Len(skipped[p]) = Cardinality({k \in 1..Len(nav[p]) : ~nav[p][k].ok})

\* A crawl completed in which one url was skipped after Retries failed
\* attempts and another was reached on the retry.
C9_Witness ==
    \E p \in Requests :
        /\ pc[p] = "done"
        /\ \E k \in 1..Len(nav[p]) : ~nav[p][k].ok /\ nav[p][k].attempts = Retries
        /\ \E k \in 1..Len(nav[p]) : nav[p][k].ok /\ nav[p][k].attempts = Retries
        /\ Len(skipped[p]) = 1 /\ Len(results[p]) = 1

\* ------------------------------------------------------------------------
\* C10.  In every success response of POST /api/scrape, found is the
\* number of links this invocation collected and processed the number of
\* records it put in the store, so processed <= min(20, found), whatever
\* the interleaving of overlapping invocations.
C10_CountsOfSameInvocation ==
    \A p \in Requests :
        resp[p].kind = "success" =>
            /\ resp[p].found = Len(links[p])
            /\ resp[p].processed = Len(results[p])
            /\ resp[p].processed <= Min(ScrapeMaxVehicles, resp[p].found)

=============================================================================
